---- MODULE Spec2Model ----
(***************************************************************************)
(* Keyframe interpolation buffer of lib/simulation/interpolation.ts and    *)
(* flight safety assessment of lib/physics/drone.ts.                       *)
(*                                                                         *)
(* JavaScript numbers are modelled as exact rationals <<n, d>> in lowest   *)
(* terms with d > 0 (pose components), timestamps and clock values as      *)
(* integers (milliseconds).  Rounding of IEEE doubles is not modelled.     *)
(***************************************************************************)
EXTENDS Integers, Sequences, FiniteSets, TLC

VARIABLES
    buffer,      \* the InterpolationBuffer the host holds (result of the last call)
    argIntact,   \* TRUE iff the last call left the buffer object passed to it as it was
    thrown,      \* "none", or the exception the last call raised
    last,        \* which function produced `buffer`: "createBuffer", "pushKeyframe", "computeInterpolatedState"
    call         \* the last direct call of an exported function: its name, arguments and result

vars == <<buffer, argIntact, thrown, last, call>>

----------------------------------------------------------------------------
(* Bounds of the model *)

MaxTime == 2        \* keyframe timestamps range over 0..MaxTime
MaxLen == 3         \* pushes are explored while their result holds at most MaxLen keyframes
MaxScalar == 3      \* lerp endpoints range over -MaxScalar..MaxScalar
MaxFraction == 3    \* interpolation fractions range over -1/2..MaxFraction/2
MaxAngle == 40      \* headings range over -10*MaxAngle..10*MaxAngle degrees
MaxAltitudeSteps == 3   \* airDensity is called at -1..MaxAltitudeSteps altitude steps

----------------------------------------------------------------------------
(* Exact rational arithmetic standing for JavaScript number arithmetic.     *)
(* Add, Sub and Mul keep the denominator positive without reducing the     *)
(* fraction; Norm reduces it, and every value stored in a keyframe is      *)
(* reduced, so that equal numbers are equal values.                        *)

Abs(x) == IF x < 0 THEN -x ELSE x

RECURSIVE GCD(_, _)
GCD(a, b) == IF b = 0 THEN a ELSE GCD(b, a % b)

\* n/d in lowest terms, denominator positive
Rat(n, d) ==
    LET s == IF d < 0 THEN -1 ELSE 1
        g == GCD(Abs(n), Abs(d))
    IN  <<(s * n) \div g, (s * d) \div g>>

Norm(x) == Rat(x[1], x[2])
Num(i) == <<i, 1>>
Add(x, y) == <<x[1] * y[2] + y[1] * x[2], x[2] * y[2]>>
Sub(x, y) == <<x[1] * y[2] - y[1] * x[2], x[2] * y[2]>>
Mul(x, y) == <<x[1] * y[1], x[2] * y[2]>>
Leq(x, y) == x[1] * y[2] <= y[1] * x[2]
Less(x, y) == x[1] * y[2] < y[1] * x[2]
Same(x, y) == x[1] * y[2] = y[1] * x[2]

\* Math.max / Math.min
MathMax(x, y) == IF Leq(x, y) THEN y ELSE x
MathMin(x, y) == IF Leq(x, y) THEN x ELSE y

\* integer part toward zero of n/d, d > 0
Trunc(n, d) == IF n >= 0 THEN n \div d ELSE -((-n) \div d)

\* the % operator of JavaScript: the remainder has the sign of the dividend
Rem(x, m) == Sub(x, Num(m * Trunc(x[1], x[2] * m)))

----------------------------------------------------------------------------
(* Values *)

Null == [kind |-> "null"]
TypeError == [kind |-> "TypeError"]

\* no exported function has been called directly yet
NoCall == [fn |-> "none"]

EntityIds == {"drone-1"}
RenderDelays == {0, 1}
Timestamps == 0..MaxTime
Nows == 0..(MaxTime + 1)    \* now - renderDelay then covers -1..MaxTime+1
Sizes == {-2, 0, 1, MaxLen - 1, MaxLen}   \* maxBufferSize; the code accepts 0 and negative values

PoseA == [position |-> [lng |-> Num(0), lat |-> Num(0), alt |-> Num(0)],
          heading |-> Num(350), pitch |-> Num(0), roll |-> Num(0)]
PoseB == [position |-> [lng |-> Num(4), lat |-> Num(-2), alt |-> Num(6)],
          heading |-> Num(10), pitch |-> Num(-4), roll |-> Num(2)]
Poses == {PoseA, PoseB}

Keyframe(p, ts) ==
    [position |-> p.position, heading |-> p.heading, pitch |-> p.pitch,
     roll |-> p.roll, timestamp |-> ts]

Keyframes == {Keyframe(p, ts) : p \in Poses, ts \in Timestamps}

\* arguments of the direct calls of the primitives
Scalars == {Num(k) : k \in (-MaxScalar)..MaxScalar}
Fractions == {Rat(k, 2) : k \in (-1)..MaxFraction}      \* t below 0, inside and above 1
Angles == {Num(10 * k) : k \in (-MaxAngle)..MaxAngle}   \* headings, not validated by the code
RenderTimes == (-1)..(MaxTime + 1)
ConfigDelays == {-1, 0, 1}                              \* renderDelay handed to createBuffer

----------------------------------------------------------------------------
(* Interpolation primitives *)

\* clamp01 without its lower bound
clampAbove(t) == MathMin(Num(1), t)

clamp01(t) == MathMax(Num(0), MathMin(Num(1), t))

\* lerp applying t as given
lerpUnclamped(a, b, t) == Norm(Add(a, Mul(Sub(b, a), t)))

lerp(a, b, t) == Norm(Add(a, Mul(Sub(b, a), clamp01(t))))

\* lerpPosition applying t as given
lerpPositionUnclamped(a, b, t) ==
    [lng |-> Norm(Add(a.lng, Mul(Sub(b.lng, a.lng), t))),
     lat |-> Norm(Add(a.lat, Mul(Sub(b.lat, a.lat), t))),
     alt |-> Norm(Add(a.alt, Mul(Sub(b.alt, a.alt), t)))]

lerpPosition(a, b, t) ==
    LET ct == clamp01(t)
    IN  [lng |-> Norm(Add(a.lng, Mul(Sub(b.lng, a.lng), ct))),
         lat |-> Norm(Add(a.lat, Mul(Sub(b.lat, a.lat), ct))),
         alt |-> Norm(Add(a.alt, Mul(Sub(b.alt, a.alt), ct)))]

\* the signed difference `diff` of slerpHeading
slerpDiff(a, b) == Sub(Rem(Add(Sub(b, a), Num(540)), 360), Num(180))

slerpHeading(a, b, t) ==
    LET ct == clamp01(t)
        diff == slerpDiff(a, b)
    IN  Norm(Rem(Add(Add(a, Mul(diff, ct)), Num(360)), 360))

\* interpolateKeyframe dividing by every duration but zero
interpolateKeyframeNonzeroDuration(prev, next, renderTime) ==
    LET duration == next.timestamp - prev.timestamp
        t == IF duration # 0 THEN Rat(renderTime - prev.timestamp, duration) ELSE Num(0)
    IN  [position |-> lerpPosition(prev.position, next.position, t),
         heading |-> slerpHeading(prev.heading, next.heading, t),
         pitch |-> lerp(prev.pitch, next.pitch, t),
         roll |-> lerp(prev.roll, next.roll, t),
         timestamp |-> renderTime]

\* interpolateKeyframe stamping the result with next's timestamp
interpolateKeyframeNextTimestamp(prev, next, renderTime) ==
    LET duration == next.timestamp - prev.timestamp
        t == IF duration > 0 THEN Rat(renderTime - prev.timestamp, duration) ELSE Num(0)
    IN  [position |-> lerpPosition(prev.position, next.position, t),
         heading |-> slerpHeading(prev.heading, next.heading, t),
         pitch |-> lerp(prev.pitch, next.pitch, t),
         roll |-> lerp(prev.roll, next.roll, t),
         timestamp |-> next.timestamp]

interpolateKeyframe(prev, next, renderTime) ==
    LET duration == next.timestamp - prev.timestamp
        t == IF duration > 0 THEN Rat(renderTime - prev.timestamp, duration) ELSE Num(0)
    IN  [position |-> lerpPosition(prev.position, next.position, t),
         heading |-> slerpHeading(prev.heading, next.heading, t),
         pitch |-> lerp(prev.pitch, next.pitch, t),
         roll |-> lerp(prev.roll, next.roll, t),
         timestamp |-> renderTime]

----------------------------------------------------------------------------
(* Array helpers *)

\* An unstable placement: the new element goes before the elements equal to it
RECURSIVE InsertPosBeforeEquals(_, _, _)
InsertPosBeforeEquals(sorted, k, i) ==
    IF i = 0 THEN 0
    ELSE IF sorted[i].timestamp - k.timestamp < 0 THEN i
    ELSE InsertPosBeforeEquals(sorted, k, i - 1)

\* Array.prototype.sort with comparator (a, b) => a.timestamp - b.timestamp.
\* The sort is stable (ECMAScript 2019), so its result is the one an insertion
\* sort produces: each element goes after the elements that compare <= to it.
RECURSIVE InsertPos(_, _, _)
InsertPos(sorted, k, i) ==
    IF i = 0 THEN 0
    ELSE IF sorted[i].timestamp - k.timestamp <= 0 THEN i
    ELSE InsertPos(sorted, k, i - 1)

InsertByTimestamp(sorted, k) ==
    LET p == InsertPos(sorted, k, Len(sorted))
    IN  SubSeq(sorted, 1, p) \o <<k>> \o SubSeq(sorted, p + 1, Len(sorted))

\* No sort at all: the array stays in arrival order
NoSort(s) == s

RECURSIVE SortByTimestamp(_)
SortByTimestamp(s) ==
    IF s = <<>> THEN <<>>
    ELSE InsertByTimestamp(SortByTimestamp(SubSeq(s, 1, Len(s) - 1)), s[Len(s)])

\* Array.prototype.slice(start) with one integer argument: a negative start
\* counts from the end, and -0 is 0.
Slice(s, start) ==
    LET n == Len(s)
        from == IF start < 0 THEN (IF n + start > 0 THEN n + start ELSE 0)
                ELSE (IF start < n THEN start ELSE n)
    IN  SubSeq(s, from + 1, n)

----------------------------------------------------------------------------
(* Buffer management *)

createBuffer(entityId, renderDelay) ==
    [entityId |-> entityId, keyframes |-> <<>>, current |-> Null,
     renderDelay |-> renderDelay]

\* A push that builds its result from scratch instead of spreading the argument
pushKeyframeFresh(buf, keyframe, maxBufferSize) ==
    [createBuffer(buf.entityId, buf.renderDelay) EXCEPT
        !.keyframes = Slice(SortByTimestamp(Append(buf.keyframes, keyframe)),
                            -maxBufferSize)]

\* A push that also shows the pushed keyframe as the current pose
pushKeyframeRefreshing(buf, keyframe, maxBufferSize) ==
    LET keyframes == Slice(SortByTimestamp(Append(buf.keyframes, keyframe)),
                           -maxBufferSize)
    IN  [buf EXCEPT !.keyframes = keyframes, !.current = keyframe]

\* A push that keeps the head of the sorted array instead of its tail
pushKeyframeKeepOldest(buf, keyframe, maxBufferSize) ==
    LET sorted == SortByTimestamp(Append(buf.keyframes, keyframe))
    IN  [buf EXCEPT !.keyframes =
            SubSeq(sorted, 1, IF maxBufferSize < Len(sorted) THEN maxBufferSize
                              ELSE Len(sorted))]

pushKeyframe(buf, keyframe, maxBufferSize) ==
    LET keyframes == Slice(SortByTimestamp(Append(buf.keyframes, keyframe)),
                           -maxBufferSize)
    IN  [buf EXCEPT !.keyframes = keyframes]

\* The buffer object passed to pushKeyframe as the caller sees it after the
\* call: the spread [...buffer.keyframes, keyframe] copies the array before
\* sort() reorders the copy, slice() copies again and {...buffer, keyframes}
\* builds a new object, so nothing is written to the argument.
pushKeyframeArg(buf, keyframe, maxBufferSize) == buf

\* A forward scan: the first index at or above `i` (counted from the end) whose
\* timestamp is <= renderTime, else the first index
RECURSIVE ScanFirstIdx(_, _, _)
ScanFirstIdx(keyframes, renderTime, i) ==
    IF i < 1 THEN 1
    ELSE IF keyframes[Len(keyframes) - i + 1].timestamp <= renderTime
         THEN Len(keyframes) - i + 1
    ELSE ScanFirstIdx(keyframes, renderTime, i - 1)

\* A backward scan that accepts only timestamps strictly before renderTime
RECURSIVE ScanPrevIdxStrict(_, _, _)
ScanPrevIdxStrict(keyframes, renderTime, i) ==
    IF i < 1 THEN 1
    ELSE IF keyframes[i].timestamp < renderTime THEN i
    ELSE ScanPrevIdxStrict(keyframes, renderTime, i - 1)

\* The backward scan for the bracketing keyframe: the greatest index (1-based)
\* at or below `i` whose timestamp is <= renderTime, else the first index.
RECURSIVE ScanPrevIdx(_, _, _)
ScanPrevIdx(keyframes, renderTime, i) ==
    IF i < 1 THEN 1
    ELSE IF keyframes[i].timestamp <= renderTime THEN i
    ELSE ScanPrevIdx(keyframes, renderTime, i - 1)

\* The bracketing without the prevIdx === nextIdx shortcut
BracketAlwaysInterpolates(keyframes, renderTime) ==
    LET prevIdx == ScanPrevIdx(keyframes, renderTime, Len(keyframes))
        nextIdx == IF prevIdx + 1 <= Len(keyframes) THEN prevIdx + 1
                   ELSE Len(keyframes)
    IN  interpolateKeyframe(keyframes[prevIdx], keyframes[nextIdx], renderTime)

\* `current` of a buffer with two keyframes or more
BracketCurrent(keyframes, renderTime) ==
    LET prevIdx == ScanPrevIdx(keyframes, renderTime, Len(keyframes))
        nextIdx == IF prevIdx + 1 <= Len(keyframes) THEN prevIdx + 1
                   ELSE Len(keyframes)
        prev == keyframes[prevIdx]
        next == keyframes[nextIdx]
    IN  IF prevIdx = nextIdx THEN prev
        ELSE interpolateKeyframe(prev, next, renderTime)

\* The evaluation without its empty-buffer guard: keyframes[0] is undefined
\* and reading its timestamp throws
computeWithoutEmptyGuard(buf, now) ==
    LET renderTime == now - buf.renderDelay
        keyframes == buf.keyframes
    IN  IF Len(keyframes) = 0 THEN TypeError
        ELSE IF Len(keyframes) = 1 THEN [buf EXCEPT !.current = keyframes[1]]
        ELSE [buf EXCEPT !.current = BracketCurrent(keyframes, renderTime)]

\* The evaluation without its single-keyframe shortcut taken verbatim: the
\* lone keyframe is interpolated with itself
computeInterpolatesSingle(buf, now) ==
    LET renderTime == now - buf.renderDelay
        keyframes == buf.keyframes
    IN  IF Len(keyframes) = 0 THEN [buf EXCEPT !.current = Null]
        ELSE IF Len(keyframes) = 1
             THEN [buf EXCEPT !.current =
                      interpolateKeyframe(keyframes[1], keyframes[1], renderTime)]
        ELSE [buf EXCEPT !.current = BracketCurrent(keyframes, renderTime)]

\* An evaluation that consumes the oldest keyframe once it has a pair
computeConsumingOldest(buf, now) ==
    LET renderTime == now - buf.renderDelay
        keyframes == buf.keyframes
    IN  IF Len(keyframes) = 0 THEN [buf EXCEPT !.current = Null]
        ELSE IF Len(keyframes) = 1 THEN [buf EXCEPT !.current = keyframes[1]]
        ELSE [buf EXCEPT !.current = BracketCurrent(keyframes, renderTime),
                         !.keyframes = Tail(keyframes)]

computeInterpolatedState(buf, now) ==
    LET renderTime == now - buf.renderDelay
        keyframes == buf.keyframes
    IN  IF Len(keyframes) = 0 THEN [buf EXCEPT !.current = Null]
        ELSE IF Len(keyframes) = 1 THEN [buf EXCEPT !.current = keyframes[1]]
        ELSE [buf EXCEPT !.current = BracketCurrent(keyframes, renderTime)]

\* The buffer object passed to computeInterpolatedState as the caller sees it
\* after the call: the function reads buffer.renderDelay and buffer.keyframes
\* and returns the new object {...buffer, current}; it assigns to no property
\* of the argument and calls no mutating array method.
computeInterpolatedStateArg(buf, now) == buf

----------------------------------------------------------------------------
(* Drone physics of lib/physics/drone.ts.  The constants of the module     *)
(* have many digits, so its arithmetic reduces every intermediate value:   *)
(* Plus, Times and Over return fractions in lowest terms.  <<1, 0>> stands *)
(* for Infinity.                                                           *)

Infinity == <<1, 0>>

Plus(x, y) ==
    LET g == GCD(x[2], y[2])
    IN  Norm(<<x[1] * (y[2] \div g) + y[1] * (x[2] \div g), (x[2] \div g) * y[2]>>)

Times(x, y) ==
    LET g1 == GCD(Abs(x[1]), y[2])
        g2 == GCD(Abs(y[1]), x[2])
    IN  Norm(<<(x[1] \div g1) * (y[1] \div g2), (x[2] \div g2) * (y[2] \div g1)>>)

Over(x, y) == Times(x, IF y[1] < 0 THEN <<-y[2], -y[1]>> ELSE <<y[2], y[1]>>)

\* Math.exp, a transcendental function, is stood for by a rational function
\* with exp(0) = 1 that is positive and strictly increasing like it
MathExp(x) ==
    IF x[1] >= 0 THEN Plus(Plus(Num(1), x), Times(Times(x, x), Rat(1, 2)))
    ELSE Over(Num(1), Plus(Plus(Num(1), <<-x[1], x[2]>>), Times(Times(x, x), Rat(1, 2))))

\* toFixed(1): the nearest multiple of one tenth
ToFixed1(x) ==
    IF x[2] = 0 THEN x
    ELSE IF x[1] >= 0 THEN Rat((20 * x[1] + x[2]) \div (2 * x[2]), 10)
    ELSE Rat(-((20 * (-x[1]) + x[2]) \div (2 * x[2])), 10)

RHO_SEA_LEVEL == Rat(1225, 1000)
G == Rat(980665, 100000)

DEFAULT_DRONE_SPEC ==
    [name |-> "Generic Quadcopter",
     mass |-> Num(4), maxPayload |-> Num(2),
     dragArea |-> Rat(5, 100), dragCoefficient |-> Rat(11, 10),
     batteryCapacity |-> Num(150), hoverPower |-> Num(200),
     maxAirspeed |-> Num(18), maxWindSpeed |-> Num(15)]

airDensity(altitudeM, tempC) ==
    LET T == Plus(tempC, Rat(27315, 100))
        T0 == Rat(28815, 100)
    IN  Times(Times(RHO_SEA_LEVEL, Over(T0, T)),
              MathExp(Over(Times(<<-G[1], G[2]>>, altitudeM), Times(Rat(28705, 100), T))))

dragForce(spec, airspeed, altitude, tempC) ==
    LET rho == airDensity(altitude, tempC)
    IN  Times(Times(Times(Times(Times(Rat(1, 2), rho), spec.dragCoefficient),
                          spec.dragArea), airspeed), airspeed)

powerConsumption(spec, airspeed, payload, altitude, tempC) ==
    LET totalMass == Plus(spec.mass, payload)
        payloadFactor == Over(totalMass, spec.mass)
        pHover == Times(spec.hoverPower, payloadFactor)
        fDrag == dragForce(spec, airspeed, altitude, tempC)
        pDrag == Times(fDrag, airspeed)
    IN  Plus(pHover, pDrag)

\* a drone that draws no power has no flight time left
remainingFlightTimeGrounded(spec, energyLevel, currentPower) ==
    IF Leq(currentPower, Num(0)) THEN Num(0)
    ELSE LET remainingEnergy == Times(spec.batteryCapacity, energyLevel)
         IN  Times(Over(remainingEnergy, currentPower), Num(3600))

remainingFlightTime(spec, energyLevel, currentPower) ==
    IF Leq(currentPower, Num(0)) THEN Infinity
    ELSE LET remainingEnergy == Times(spec.batteryCapacity, energyLevel)
         IN  Times(Over(remainingEnergy, currentPower), Num(3600))

\* a wind check that also objects to wind at the limit
WindRisksAtLimit(spec, env) ==
    IF Leq(spec.maxWindSpeed, env.windSpeed)
    THEN <<[text |-> "Wind speed exceeds max", windSpeed |-> env.windSpeed,
            max |-> spec.maxWindSpeed]>>
    ELSE <<>>

\* the wind check of assessSafety
WindRisks(spec, env) ==
    IF Less(spec.maxWindSpeed, env.windSpeed)
    THEN <<[text |-> "Wind speed exceeds max", windSpeed |-> env.windSpeed,
            max |-> spec.maxWindSpeed]>>
    ELSE <<>>

\* a weather check that knows no storm
WeatherRisksTyphoonOnly(env) ==
    IF env.weatherCondition = "typhoon"
    THEN <<[text |-> "Typhoon conditions - flight not recommended"]>>
    ELSE <<>>

\* the weather checks of assessSafety
WeatherRisks(env) ==
    (IF env.weatherCondition = "typhoon"
     THEN <<[text |-> "Typhoon conditions - flight not recommended"]>>
     ELSE <<>>)
    \o (IF env.weatherCondition = "storm"
        THEN <<[text |-> "Storm conditions - elevated risk"]>>
        ELSE <<>>)

\* a battery check whose bands include their upper limits
BatteryRisksInclusive(batteryMinutes) ==
    IF Leq(batteryMinutes, Num(5))
    THEN <<[text |-> "Critical battery", minutes |-> ToFixed1(batteryMinutes)]>>
    ELSE IF Leq(batteryMinutes, Num(15))
    THEN <<[text |-> "Low battery", minutes |-> ToFixed1(batteryMinutes)]>>
    ELSE <<>>

\* the battery check of assessSafety
BatteryRisks(batteryMinutes) ==
    IF Less(batteryMinutes, Num(5))
    THEN <<[text |-> "Critical battery", minutes |-> ToFixed1(batteryMinutes)]>>
    ELSE IF Less(batteryMinutes, Num(15))
    THEN <<[text |-> "Low battery", minutes |-> ToFixed1(batteryMinutes)]>>
    ELSE <<>>

\* an assessment that counts the payload the entity reports
assessSafetyWithPayload(spec, entity, env) ==
    LET windFactor == Over(env.windSpeed, spec.maxWindSpeed)
        power == powerConsumption(spec, entity.speed, entity.metadata.payload,
                                  entity.position.alt, env.temperature)
        flightTimeSec == remainingFlightTime(spec, entity.energyLevel, power)
        batteryMinutes == Over(flightTimeSec, Num(60))
        risks == WindRisks(spec, env) \o WeatherRisks(env) \o BatteryRisks(batteryMinutes)
    IN  [safe |-> (Len(risks) = 0), risks |-> risks,
         batteryMinutes |-> batteryMinutes, windFactor |-> windFactor]

\* an assessment that checks the battery before wind and weather
assessSafetyBatteryFirst(spec, entity, env) ==
    LET windFactor == Over(env.windSpeed, spec.maxWindSpeed)
        power == powerConsumption(spec, entity.speed, Num(0), entity.position.alt,
                                  env.temperature)
        flightTimeSec == remainingFlightTime(spec, entity.energyLevel, power)
        batteryMinutes == Over(flightTimeSec, Num(60))
        risks == BatteryRisks(batteryMinutes) \o WindRisks(spec, env) \o WeatherRisks(env)
    IN  [safe |-> (Len(risks) = 0), risks |-> risks,
         batteryMinutes |-> batteryMinutes, windFactor |-> windFactor]

\* an assessment whose verdict looks at the wind only
assessSafetyWindVerdict(spec, entity, env) ==
    LET windFactor == Over(env.windSpeed, spec.maxWindSpeed)
        power == powerConsumption(spec, entity.speed, Num(0), entity.position.alt,
                                  env.temperature)
        flightTimeSec == remainingFlightTime(spec, entity.energyLevel, power)
        batteryMinutes == Over(flightTimeSec, Num(60))
        risks == WindRisks(spec, env) \o WeatherRisks(env) \o BatteryRisks(batteryMinutes)
    IN  [safe |-> (Len(WindRisks(spec, env)) = 0), risks |-> risks,
         batteryMinutes |-> batteryMinutes, windFactor |-> windFactor]

assessSafety(spec, entity, env) ==
    LET windFactor == Over(env.windSpeed, spec.maxWindSpeed)
        power == powerConsumption(spec, entity.speed, Num(0), entity.position.alt,
                                  env.temperature)
        flightTimeSec == remainingFlightTime(spec, entity.energyLevel, power)
        batteryMinutes == Over(flightTimeSec, Num(60))
        risks == WindRisks(spec, env) \o WeatherRisks(env) \o BatteryRisks(batteryMinutes)
    IN  [safe |-> (Len(risks) = 0), risks |-> risks,
         batteryMinutes |-> batteryMinutes, windFactor |-> windFactor]

----------------------------------------------------------------------------
(* The host: creates the buffer, then pushes samples and evaluates frames *)

Init ==
    /\ buffer \in {createBuffer(e, d) : e \in EntityIds, d \in RenderDelays}
    /\ argIntact = TRUE
    /\ thrown = "none"
    /\ last = "createBuffer"
    /\ call = NoCall

PushKeyframe(keyframe, maxBufferSize) ==
    /\ \E result \in {pushKeyframe(buffer, keyframe, maxBufferSize)} :
           /\ Len(result.keyframes) <= MaxLen
           /\ buffer' = result
    /\ argIntact' = (pushKeyframeArg(buffer, keyframe, maxBufferSize) = buffer)
    /\ thrown' = "none"
    /\ last' = "pushKeyframe"
    /\ UNCHANGED call

ComputeInterpolatedState(now) ==
    LET result == computeInterpolatedState(buffer, now)
    IN  /\ buffer' = IF result = TypeError THEN buffer ELSE result
        /\ thrown' = IF result = TypeError THEN "TypeError" ELSE "none"
        /\ argIntact' = (computeInterpolatedStateArg(buffer, now) = buffer)
        /\ last' = "computeInterpolatedState"
        /\ UNCHANGED call

Push == \E keyframe \in Keyframes, maxBufferSize \in Sizes :
            PushKeyframe(keyframe, maxBufferSize)

Compute == \E now \in Nows : ComputeInterpolatedState(now)

Next == Push \/ Compute

Spec == Init /\ [][Next]_vars

----------------------------------------------------------------------------
(* Direct calls of the exported functions: one call per behaviour, its     *)
(* arguments and result recorded in `call`                                 *)

CallLerp(a, b, t) ==
    /\ call = NoCall
    /\ call' = [fn |-> "lerp", a |-> a, b |-> b, t |-> t, result |-> lerp(a, b, t)]
    /\ UNCHANGED <<buffer, argIntact, thrown, last>>

CallSlerpHeading(a, b, t) ==
    /\ call = NoCall
    /\ call' = [fn |-> "slerpHeading", a |-> a, b |-> b, t |-> t,
                result |-> slerpHeading(a, b, t)]
    /\ UNCHANGED <<buffer, argIntact, thrown, last>>

CallInterpolateKeyframe(prev, next, renderTime) ==
    /\ call = NoCall
    /\ call' = [fn |-> "interpolateKeyframe", prev |-> prev, next |-> next,
                renderTime |-> renderTime,
                result |-> interpolateKeyframe(prev, next, renderTime)]
    /\ UNCHANGED <<buffer, argIntact, thrown, last>>

CallCreateBuffer(entityId, renderDelay) ==
    /\ call = NoCall
    /\ call' = [fn |-> "createBuffer", entityId |-> entityId, renderDelay |-> renderDelay,
                result |-> createBuffer(entityId, renderDelay)]
    /\ UNCHANGED <<buffer, argIntact, thrown, last>>

CallPushKeyframe(keyframe, maxBufferSize) ==
    /\ call = NoCall
    /\ call' = [fn |-> "pushKeyframe", buffer |-> buffer, keyframe |-> keyframe,
                maxBufferSize |-> maxBufferSize,
                result |-> pushKeyframe(buffer, keyframe, maxBufferSize)]
    /\ UNCHANGED <<buffer, argIntact, thrown, last>>

Lerp ==
    /\ call = NoCall
    /\ \E a \in Scalars, b \in Scalars, t \in Fractions : CallLerp(a, b, t)

SlerpHeading ==
    /\ call = NoCall
    /\ \E a \in Angles, b \in Angles, t \in Fractions : CallSlerpHeading(a, b, t)

InterpolateKeyframe ==
    /\ call = NoCall
    /\ \E prev \in Keyframes, next \in Keyframes, renderTime \in RenderTimes :
           CallInterpolateKeyframe(prev, next, renderTime)

CreateBuffer ==
    /\ call = NoCall
    /\ \E entityId \in EntityIds, renderDelay \in ConfigDelays :
           CallCreateBuffer(entityId, renderDelay)

PushOnce ==
    /\ call = NoCall
    /\ \E keyframe \in Keyframes, maxBufferSize \in Sizes :
           CallPushKeyframe(keyframe, maxBufferSize)

NextCalls == Lerp \/ SlerpHeading \/ InterpolateKeyframe \/ CreateBuffer \/ PushOnce

SpecCalls == Init /\ [][NextCalls]_vars

----------------------------------------------------------------------------
(* A host that feeds one buffer with a fixed maxBufferSize >= 1 and         *)
(* keyframes of pairwise distinct timestamps, in any order, and evaluates   *)
(* frames in between; `call` remembers the size and the keyframes pushed    *)

InitFeed ==
    /\ buffer \in {createBuffer(e, d) : e \in EntityIds, d \in RenderDelays}
    /\ argIntact = TRUE
    /\ thrown = "none"
    /\ last = "createBuffer"
    /\ call \in {[fn |-> "feed", maxBufferSize |-> k, pushed |-> {}] : k \in 1..MaxLen}

FeedKeyframe(keyframe) ==
    /\ \A p \in call.pushed : p.timestamp # keyframe.timestamp
    /\ buffer' = pushKeyframe(buffer, keyframe, call.maxBufferSize)
    /\ argIntact' = (pushKeyframeArg(buffer, keyframe, call.maxBufferSize) = buffer)
    /\ thrown' = "none"
    /\ last' = "pushKeyframe"
    /\ call' = [call EXCEPT !.pushed = call.pushed \union {keyframe}]

Feed == \E keyframe \in Keyframes : FeedKeyframe(keyframe)

NextFeed == Feed \/ Compute

SpecFeed == InitFeed /\ [][NextFeed]_vars

----------------------------------------------------------------------------
(* Direct calls of assessSafety *)

DroneSpecs ==
    {DEFAULT_DRONE_SPEC,
     [DEFAULT_DRONE_SPEC EXCEPT !.name = "Glider", !.hoverPower = Num(0)]}

\* speed, altitude and air temperature of a flight: at rest and at 10 m/s in
\* the standard atmosphere, at rest at 20 C (the tests' temperature), and at
\* rest where -G * alt / (287.05 * T) is exactly -1
FlightConditions ==
    {[speed |-> Num(0), alt |-> Num(0), temperature |-> Num(15)],
     [speed |-> Num(10), alt |-> Num(0), temperature |-> Num(15)],
     [speed |-> Num(0), alt |-> Num(0), temperature |-> Num(20)],
     [speed |-> Num(0), alt |-> Num(5741), temperature |-> Rat(-77017, 1000)]}

\* at rest the default drone flies 45 minutes on a full battery, so 1/9 and
\* 1/3 are the levels of exactly 5 and 15 minutes
EnergyLevels == {Num(0), Rat(1, 50), Rat(1, 9), Rat(3, 10), Rat(1, 3), Rat(4, 5)}

WindSpeeds == {Num(5), Num(15), Num(25)}
WeatherConditions == {"clear", "rain", "storm", "typhoon", "snow"}

\* the inputs assessSafety does not read: as in the tests, and all different
Incidentals ==
    {[id |-> "drone-1", heading |-> Num(0), timestamp |-> 0,
      metadata |-> [payload |-> Num(0)], windDirection |-> Num(180), timeScale |-> Num(1)],
     [id |-> "drone-2", heading |-> Num(90), timestamp |-> 1,
      metadata |-> [payload |-> Num(2)], windDirection |-> Num(0), timeScale |-> Num(10)]}

Entity(flight, energyLevel, incidental) ==
    [id |-> incidental.id, type |-> "drone", position |-> [alt |-> flight.alt],
     heading |-> incidental.heading, speed |-> flight.speed,
     energyLevel |-> energyLevel, metadata |-> incidental.metadata,
     timestamp |-> incidental.timestamp]

Environment(flight, windSpeed, weatherCondition, incidental) ==
    [windSpeed |-> windSpeed, windDirection |-> incidental.windDirection,
     weatherCondition |-> weatherCondition, temperature |-> flight.temperature,
     timeScale |-> incidental.timeScale]

CallAssessSafety(spec, entity, env) ==
    /\ call = NoCall
    /\ call' = [fn |-> "assessSafety", spec |-> spec, entity |-> entity, env |-> env,
                result |-> assessSafety(spec, entity, env)]
    /\ UNCHANGED <<buffer, argIntact, thrown, last>>

AssessSafety ==
    /\ call = NoCall
    /\ \E spec \in DroneSpecs, flight \in FlightConditions, energyLevel \in EnergyLevels,
          windSpeed \in WindSpeeds, weatherCondition \in WeatherConditions,
          incidental \in Incidentals :
           CallAssessSafety(spec, Entity(flight, energyLevel, incidental),
                            Environment(flight, windSpeed, weatherCondition, incidental))

\* power draws handed to remainingFlightTime: negative, zero, hover, cruise
Powers == {Num(-50), Num(0), Num(200), Rat(3739, 16)}

CallRemainingFlightTime(spec, energyLevel, currentPower) ==
    /\ call = NoCall
    /\ call' = [fn |-> "remainingFlightTime", spec |-> spec, energyLevel |-> energyLevel,
                currentPower |-> currentPower,
                result |-> remainingFlightTime(spec, energyLevel, currentPower)]
    /\ UNCHANGED <<buffer, argIntact, thrown, last>>

RemainingFlightTime ==
    /\ call = NoCall
    /\ \E spec \in DroneSpecs, energyLevel \in EnergyLevels, currentPower \in Powers :
           CallRemainingFlightTime(spec, energyLevel, currentPower)

\* air temperatures in Celsius, and for each the altitudes at which the
\* exponent -G * h / (287.05 * T) of airDensity is -k/50 (0 C: 159.9 m per
\* step, 15 C: 168.7 m, 20 C: 171.6 m), one step below sea level included
AirTemperatures == {Num(0), Num(15), Num(20)}

AltitudeStep(tempC) ==
    Over(Times(Times(Rat(28705, 100), Plus(tempC, Rat(27315, 100))), Rat(1, 50)), G)

Altitudes(tempC) == {Times(Num(k), AltitudeStep(tempC)) : k \in (-1)..MaxAltitudeSteps}

CallAirDensity(altitudeM, tempC) ==
    /\ call = NoCall
    /\ call' = [fn |-> "airDensity", altitudeM |-> altitudeM, tempC |-> tempC,
                result |-> airDensity(altitudeM, tempC)]
    /\ UNCHANGED <<buffer, argIntact, thrown, last>>

AirDensity ==
    /\ call = NoCall
    /\ \E tempC \in AirTemperatures : \E altitudeM \in Altitudes(tempC) :
           CallAirDensity(altitudeM, tempC)

\* the call has returned; the next one starts from the same module state
Return ==
    /\ call # NoCall
    /\ call' = NoCall
    /\ UNCHANGED <<buffer, argIntact, thrown, last>>

NextSafety == AssessSafety \/ RemainingFlightTime \/ AirDensity \/ Return

SpecSafety == Init /\ [][NextSafety]_vars

----------------------------------------------------------------------------
(* Helpers of the properties *)

Range(s) == {s[i] : i \in DOMAIN s}
Count(s, v) == Cardinality({i \in DOMAIN s : s[i] = v})
InsertAt(s, p, k) == SubSeq(s, 1, p) \o <<k>> \o SubSeq(s, p + 1, Len(s))
IsSuffix(t, s) == Len(t) <= Len(s) /\ t = SubSeq(s, Len(s) - Len(t) + 1, Len(s))

\* the values pushed or buffered that the result no longer holds
Discarded(old, keyframe, new) ==
    {v \in Range(Append(old, keyframe)) : Count(Append(old, keyframe), v) > Count(new, v)}

SamePose(k, p) ==
    /\ k.position = p.position
    /\ k.heading = p.heading
    /\ k.pitch = p.pitch
    /\ k.roll = p.roll

\* how many entries of the risk list carry the text
RisksWith(risks, text) == Cardinality({i \in DOMAIN risks : risks[i].text = text})

\* c lies between a and b inclusive, whichever is the larger
Between(c, a, b) == Leq(MathMin(a, b), c) /\ Leq(c, MathMax(a, b))

\* each of lng, lat, alt, pitch and roll of c lies between those of p and q
PoseBetween(c, p, q) ==
    /\ Between(c.position.lng, p.position.lng, q.position.lng)
    /\ Between(c.position.lat, p.position.lat, q.position.lat)
    /\ Between(c.position.alt, p.position.alt, q.position.alt)
    /\ Between(c.pitch, p.pitch, q.pitch)
    /\ Between(c.roll, p.roll, q.roll)

\* x < y, by the sign of the reduced difference
Below(x, y) == Plus(y, <<-x[1], x[2]>>)[1] > 0

\* x < y for positive x and y, by the reduced quotient
BelowPositive(x, y) == LET q == Over(x, y) IN q[1] < q[2]

\* the check a risk entry comes from: 1 wind, 2 weather, 3 battery
CheckOf(risk) ==
    IF risk.text = "Wind speed exceeds max" THEN 1
    ELSE IF risk.text \in {"Typhoon conditions - flight not recommended",
                           "Storm conditions - elevated risk"} THEN 2
    ELSE 3

\* the outcome a validating entry point would give
ValidationError == [kind |-> "ValidationError"]

\* the representative of the angle x in [0, 360)
Mod360(x) == Norm(<<x[1] % (360 * x[2]), x[2]>>)

\* c = a + (b - a) * num / den
IsBlend(c, a, b, num, den) ==
    Same(Mul(Sub(c, a), Num(den)), Mul(Sub(b, a), Num(num)))

\* c is the heading reached from a toward b after the fraction num/den of the
\* arc of at most 180 degrees, as an angle in [0, 360)
IsArcBlend(c, a, b, num, den) ==
    /\ Leq(Num(0), c) /\ Less(c, Num(360))
    /\ \E k \in -1..1, j \in -1..1 :
          LET d == Add(Sub(b, a), Num(360 * k))
          IN  /\ Leq(Num(-180), d) /\ Leq(d, Num(180))
              /\ Same(Mul(Sub(Add(c, Num(360 * j)), a), Num(den)), Mul(d, Num(num)))

----------------------------------------------------------------------------
(* Properties *)

\* C1: after any sequence of pushKeyframe calls from createBuffer, whatever
\* the order the timestamps arrive in, buffer.keyframes is ascending by
\* timestamp: each entry's timestamp is <= its successor's.
C1_KeyframesSorted ==
    \A i \in 1..(Len(buffer.keyframes) - 1) :
        buffer.keyframes[i].timestamp <= buffer.keyframes[i + 1].timestamp

\* the unit test's case: the later sample (PoseA at 2) arrives first, the
\* earlier one (PoseB at 1) second
C1_Witness ==
    /\ last = "pushKeyframe"
    /\ buffer.keyframes = <<Keyframe(PoseB, 1), Keyframe(PoseA, 2)>>
    /\ buffer.keyframes =
         pushKeyframe(pushKeyframe(createBuffer("drone-1", buffer.renderDelay),
                                   Keyframe(PoseA, 2), MaxLen),
                      Keyframe(PoseB, 1), MaxLen).keyframes

\* C2 (as claimed): for every maxBufferSize >= 0, 0 included, the buffer a
\* push returns holds at most maxBufferSize keyframes.
C2_AtMostMaxBufferSize ==
    [][\A keyframe \in Keyframes, maxBufferSize \in Sizes :
          (maxBufferSize >= 0 /\ PushKeyframe(keyframe, maxBufferSize))
              => Len(buffer'.keyframes) <= maxBufferSize]_vars

\* C3 (as claimed): in a push with maxBufferSize >= 0, every keyframe
\* discarded has a timestamp <= every keyframe retained, and a keyframe older
\* than every buffered one pushed into a buffer already holding maxBufferSize
\* keyframes or more is itself discarded.
C3_OldestDiscarded ==
    [][\A keyframe \in Keyframes, maxBufferSize \in Sizes :
          (maxBufferSize >= 0 /\ PushKeyframe(keyframe, maxBufferSize)) =>
              LET old == buffer.keyframes
                  new == buffer'.keyframes
              IN  /\ \A d \in Discarded(old, keyframe, new), i \in DOMAIN new :
                         d.timestamp <= new[i].timestamp
                  /\ ( /\ Len(old) > 0
                       /\ Len(old) >= maxBufferSize
                       /\ \A i \in DOMAIN old : keyframe.timestamp < old[i].timestamp )
                     => \A i \in DOMAIN new : new[i] # keyframe]_vars

\* C4: keyframes of equal timestamp keep their insertion order.  For every
\* buffer reached and every push: the result is the old sequence, in its old
\* order, with the new keyframe placed after every buffered keyframe of the
\* same timestamp, less a prefix (so of several duplicates the one inserted
\* first is discarded first).
C4_EqualTimestampsKeepInsertionOrder ==
    \A keyframe \in Keyframes, maxBufferSize \in Sizes :
        LET old == buffer.keyframes
            new == pushKeyframe(buffer, keyframe, maxBufferSize).keyframes
        IN  \E p \in 0..Len(old) :
                /\ \A i \in 1..Len(old) :
                       old[i].timestamp = keyframe.timestamp => i <= p
                /\ IsSuffix(new, InsertAt(old, p, keyframe))

\* PoseA at 1 was pushed before PoseB at 1 and precedes it
C4_Witness ==
    /\ last = "pushKeyframe"
    /\ buffer.keyframes = <<Keyframe(PoseA, 1), Keyframe(PoseB, 1)>>

\* C5: a push leaves the buffer object passed to it as it was, and the buffer
\* it returns has the entityId, renderDelay and current of its argument.
C5_PushIsCopyReturning ==
    [][last' = "pushKeyframe" =>
          /\ argIntact'
          /\ buffer'.entityId = buffer.entityId
          /\ buffer'.renderDelay = buffer.renderDelay
          /\ buffer'.current = buffer.current]_vars

\* a push after an evaluation: the stale current is carried over
C5_Witness ==
    /\ last = "pushKeyframe"
    /\ argIntact
    /\ buffer.current # Null
    /\ Len(buffer.keyframes) >= 2

\* C6: evaluating a buffer without keyframes sets current to null and does
\* not throw, whatever now and renderDelay are.
C6_EmptyBufferGivesNull ==
    [][(last' = "computeInterpolatedState" /\ Len(buffer.keyframes) = 0) =>
          (thrown' = "none" /\ buffer'.current = Null)]_vars

C6_Witness ==
    /\ last = "computeInterpolatedState"
    /\ Len(buffer.keyframes) = 0
    /\ buffer.current = Null
    /\ thrown = "none"
    /\ buffer.renderDelay = 1

\* C7: evaluating a buffer with exactly one keyframe sets current to that
\* keyframe, pose and timestamp, whatever now and renderDelay are.
C7_SingleKeyframeVerbatim ==
    [][(last' = "computeInterpolatedState" /\ Len(buffer.keyframes) = 1) =>
          (thrown' = "none" /\ buffer'.current = buffer.keyframes[1])]_vars

C7_Witness ==
    /\ last = "computeInterpolatedState"
    /\ buffer.keyframes = <<Keyframe(PoseB, 1)>>
    /\ buffer.current = Keyframe(PoseB, 1)

\* C8: with two keyframes or more and renderTime = now - renderDelay at or
\* after the oldest timestamp and before the newest, prev is the last
\* keyframe with timestamp <= renderTime, next the one after it, and current
\* is their blend at (renderTime - prev.timestamp) / (next.timestamp -
\* prev.timestamp): linear in lng, lat, alt, pitch and roll, along the arc of
\* at most 180 degrees in heading.
C8_InterpolatesBracketingPair ==
    \A now \in Nows :
        LET keyframes == buffer.keyframes
            n == Len(keyframes)
            renderTime == now - buffer.renderDelay
        IN  (n >= 2 /\ keyframes[1].timestamp <= renderTime
                    /\ renderTime < keyframes[n].timestamp) =>
            LET prevIdx == CHOOSE i \in 1..n :
                              /\ keyframes[i].timestamp <= renderTime
                              /\ \A j \in 1..n :
                                     keyframes[j].timestamp <= renderTime => j <= i
                prev == keyframes[prevIdx]
                next == keyframes[prevIdx + 1]
                num == renderTime - prev.timestamp
                den == next.timestamp - prev.timestamp
                current == computeInterpolatedState(buffer, now).current
            IN  /\ den > 0
                /\ IsBlend(current.position.lng, prev.position.lng, next.position.lng, num, den)
                /\ IsBlend(current.position.lat, prev.position.lat, next.position.lat, num, den)
                /\ IsBlend(current.position.alt, prev.position.alt, next.position.alt, num, den)
                /\ IsBlend(current.pitch, prev.pitch, next.pitch, num, den)
                /\ IsBlend(current.roll, prev.roll, next.roll, num, den)
                /\ IsArcBlend(current.heading, prev.heading, next.heading, num, den)

\* the unit test's case scaled to the model's clock: keyframes at 0 and 2,
\* renderDelay 1, now 2, so renderTime 1 and current the midpoint
C8_Witness ==
    /\ last = "computeInterpolatedState"
    /\ buffer.renderDelay = 1
    /\ buffer.keyframes = <<Keyframe(PoseA, 0), Keyframe(PoseB, 2)>>
    /\ buffer.current =
         [position |-> [lng |-> Num(2), lat |-> Num(-1), alt |-> Num(3)],
          heading |-> Num(0), pitch |-> Num(-2), roll |-> Num(1), timestamp |-> 1]
    /\ buffer.current = computeInterpolatedState(buffer, 2).current

\* C9: with two keyframes or more and renderTime before every buffered
\* timestamp, current has the position, heading, pitch and roll of the oldest
\* keyframe, also when the two oldest keyframes share a timestamp.
C9_NoBackwardExtrapolation ==
    \A now \in Nows :
        LET keyframes == buffer.keyframes
            renderTime == now - buffer.renderDelay
        IN  ( /\ Len(keyframes) >= 2
              /\ \A i \in DOMAIN keyframes : renderTime < keyframes[i].timestamp )
            => SamePose(computeInterpolatedState(buffer, now).current, keyframes[1])

\* evaluated before the oldest sample; the two oldest share the timestamp 1
C9_Witness ==
    /\ last = "computeInterpolatedState"
    /\ buffer.keyframes = <<Keyframe(PoseB, 1), Keyframe(PoseA, 1), Keyframe(PoseA, 2)>>
    /\ SamePose(buffer.current, PoseB)
    /\ buffer.current.timestamp < 1

\* C10: with two keyframes or more and renderTime at or past the newest
\* buffered timestamp, current is the newest keyframe itself, with its own
\* timestamp.
C10_NoForwardExtrapolation ==
    \A now \in Nows :
        LET keyframes == buffer.keyframes
            n == Len(keyframes)
            renderTime == now - buffer.renderDelay
        IN  (n >= 2 /\ keyframes[n].timestamp <= renderTime)
            => computeInterpolatedState(buffer, now).current = keyframes[n]

\* evaluated at now = MaxTime + 1, past the newest sample at 1
C10_Witness ==
    /\ last = "computeInterpolatedState"
    /\ buffer.keyframes = <<Keyframe(PoseA, 0), Keyframe(PoseB, 1)>>
    /\ buffer.current = Keyframe(PoseB, 1)
    /\ buffer.current = computeInterpolatedState(buffer, MaxTime + 1).current

\* C11: whenever computeInterpolatedState interpolates between two distinct
\* keyframes (two keyframes or more, renderTime = now - renderDelay before the
\* newest timestamp), current.timestamp equals renderTime.
C11_InterpolatedTimestampIsRenderTime ==
    \A now \in Nows :
        LET keyframes == buffer.keyframes
            n == Len(keyframes)
            renderTime == now - buffer.renderDelay
        IN  (n >= 2 /\ renderTime < keyframes[n].timestamp)
            => computeInterpolatedState(buffer, now).current.timestamp = renderTime

\* keyframes at 0 and 2 evaluated at renderTime 1, the timestamp of neither
C11_Witness ==
    /\ last = "computeInterpolatedState"
    /\ Len(buffer.keyframes) = 2
    /\ buffer.keyframes[1].timestamp = 0
    /\ buffer.keyframes[2].timestamp = 2
    /\ buffer.keyframes[1].heading # buffer.keyframes[2].heading
    /\ buffer.current.timestamp = 1
    /\ buffer.current.position.alt = Num(3)

\* C12: interpolateKeyframe(prev, next, renderTime) with next.timestamp -
\* prev.timestamp <= 0 (duplicate or reversed timestamps) returns a keyframe
\* with prev's position, heading, pitch and roll, for every renderTime.
C12_DegenerateSpanGivesPrev ==
    (call.fn = "interpolateKeyframe" /\ call.next.timestamp - call.prev.timestamp <= 0)
    => /\ SamePose(call.result, call.prev)
       /\ call.result.timestamp = call.renderTime

\* reversed timestamps 2 and 0 evaluated in between, and the poses differ
C12_Witness ==
    /\ call.fn = "interpolateKeyframe"
    /\ call.prev = Keyframe(PoseB, 2)
    /\ call.next = Keyframe(PoseA, 0)
    /\ call.renderTime = 1
    /\ SamePose(call.result, PoseB)

\* C13: lerp(a, b, t) = a + (b - a) * clamp(t, 0, 1): a for every t <= 0, b
\* for every t >= 1, and always between a and b inclusive.
C13_LerpClamps ==
    call.fn = "lerp" =>
        LET a == call.a
            b == call.b
            t == call.t
            ct == IF Less(t, Num(0)) THEN Num(0) ELSE IF Less(Num(1), t) THEN Num(1) ELSE t
        IN  /\ Same(call.result, Add(a, Mul(Sub(b, a), ct)))
            /\ Leq(t, Num(0)) => call.result = a
            /\ Leq(Num(1), t) => call.result = b
            /\ Leq(MathMin(a, b), call.result)
            /\ Leq(call.result, MathMax(a, b))

\* t = 3/2 gives b, where the unclamped line would pass it
C13_Witness ==
    /\ call.fn = "lerp"
    /\ call.a = Num(-1)
    /\ call.b = Num(3)
    /\ call.t = Rat(3, 2)
    /\ call.result = Num(3)

\* C14: in slerpHeading(a, b, t) the signed difference diff = ((b - a + 540)
\* mod 360) - 180 lies in (-180, 180] for any raw difference b - a, so the
\* sweep from a is an arc of at most 180 degrees.
C14_DiffInHalfOpenInterval ==
    call.fn = "slerpHeading" =>
        LET diff == slerpDiff(call.a, call.b)
        IN  /\ Less(Num(-180), diff)
            /\ Leq(diff, Num(180))

\* C15: slerpHeading(a, b, t) returns a value in [0, 360) for all a, b and t.
C15_ResultInRange ==
    call.fn = "slerpHeading" =>
        /\ Leq(Num(0), call.result)
        /\ Less(call.result, Num(360))

\* C16: slerpHeading(x, y, 0) equals x mod 360 and slerpHeading(x, y, 1)
\* equals y mod 360 for all headings x and y (mod 360 the representative in
\* [0, 360)).
C16_EndpointsModulo360 ==
    call.fn = "slerpHeading" =>
        /\ call.t = Num(0) => call.result = Mod360(call.a)
        /\ call.t = Num(1) => call.result = Mod360(call.b)

\* C17: malformed configuration is rejected with a validation error:
\* createBuffer with a negative renderDelay and pushKeyframe with a negative
\* maxBufferSize do not produce a buffer.
C17_MalformedConfigRejected ==
    /\ (call.fn = "createBuffer" /\ call.renderDelay < 0) => call.result = ValidationError
    /\ (call.fn = "pushKeyframe" /\ call.maxBufferSize < 0) => call.result = ValidationError

\* C18: assessSafety returns safe = true exactly when the returned risks list
\* is empty.
C18_SafeIffNoRisks ==
    call.fn = "assessSafety" => (call.result.safe <=> call.result.risks = <<>>)

\* the tests' normal conditions (safe), in the standard atmosphere
C18_Witness ==
    /\ call.fn = "assessSafety"
    /\ call.spec = DEFAULT_DRONE_SPEC
    /\ call.entity.speed = Num(10)
    /\ call.entity.energyLevel = Rat(4, 5)
    /\ call.env.windSpeed = Num(5)
    /\ call.env.weatherCondition = "clear"
    /\ call.result.safe
    /\ call.result.risks = <<>>

\* C19: with m the estimated remaining minutes, m < 5 gives exactly one
\* critical-battery risk and no low-battery risk, 5 <= m < 15 exactly one
\* low-battery risk and no critical one, m >= 15 neither.
C19_BatteryBands ==
    call.fn = "assessSafety" =>
        LET m == call.result.batteryMinutes
            critical == RisksWith(call.result.risks, "Critical battery")
            low == RisksWith(call.result.risks, "Low battery")
        IN  /\ Less(m, Num(5)) => (critical = 1 /\ low = 0)
            /\ (Leq(Num(5), m) /\ Less(m, Num(15))) => (critical = 0 /\ low = 1)
            /\ Leq(Num(15), m) => (critical = 0 /\ low = 0)

\* exactly 5 minutes left: the low-battery band
C19_Witness ==
    /\ call.fn = "assessSafety"
    /\ call.result.batteryMinutes = Num(5)
    /\ call.env.weatherCondition = "clear"
    /\ call.env.windSpeed = Num(5)
    /\ call.result.risks = <<[text |-> "Low battery", minutes |-> Num(5)]>>

\* C20: typhoon always makes the verdict unsafe with a flight-not-recommended
\* risk, storm always appends an elevated-risk entry, and clear, rain and snow
\* add no risk: the list then holds wind and battery risks only.
C20_WeatherRisks ==
    call.fn = "assessSafety" =>
        LET weather == call.env.weatherCondition
            risks == call.result.risks
        IN  /\ weather = "typhoon" =>
                   /\ ~call.result.safe
                   /\ RisksWith(risks, "Typhoon conditions - flight not recommended") = 1
            /\ weather = "storm" =>
                   RisksWith(risks, "Storm conditions - elevated risk") = 1
            /\ weather \in {"clear", "rain", "snow"} =>
                   \A i \in DOMAIN risks :
                       risks[i].text \in {"Wind speed exceeds max", "Critical battery",
                                          "Low battery"}

\* a typhoon in light wind with a charged battery: unsafe for the weather alone
C20_Witness ==
    /\ call.fn = "assessSafety"
    /\ call.env.weatherCondition = "typhoon"
    /\ call.env.windSpeed = Num(5)
    /\ call.entity.energyLevel = Rat(4, 5)
    /\ ~call.result.safe
    /\ call.result.risks = <<[text |-> "Typhoon conditions - flight not recommended"]>>

\* C21: assessSafety returns windFactor = windSpeed / maxWindSpeed and appends
\* a wind-exceedance risk exactly when windFactor exceeds 1; wind speed equal
\* to maxWindSpeed adds no wind risk.
C21_WindFactorAndRisk ==
    call.fn = "assessSafety" =>
        LET windFactor == call.result.windFactor
            wind == RisksWith(call.result.risks, "Wind speed exceeds max")
        IN  /\ Same(Mul(windFactor, call.spec.maxWindSpeed), call.env.windSpeed)
            /\ Less(Num(1), windFactor) => wind = 1
            /\ Leq(windFactor, Num(1)) => wind = 0

\* wind at the limit of the default drone: factor exactly 1 and no wind risk
C21_Witness ==
    /\ call.fn = "assessSafety"
    /\ call.env.windSpeed = call.spec.maxWindSpeed
    /\ call.result.windFactor = Num(1)
    /\ call.env.weatherCondition = "storm"
    /\ call.result.risks = <<[text |-> "Storm conditions - elevated risk"]>>

\* C22: the three checks of assessSafety run unconditionally and accumulate
\* independently (each contributes its risk whatever the others found), and
\* the risks list is ordered wind, then weather, then battery.
C22_ChecksIndependentAndOrdered ==
    call.fn = "assessSafety" =>
        LET risks == call.result.risks
            from(c) == Cardinality({i \in DOMAIN risks : CheckOf(risks[i]) = c})
        IN  /\ from(1) = (IF Less(call.spec.maxWindSpeed, call.env.windSpeed) THEN 1 ELSE 0)
            /\ from(2) = (IF call.env.weatherCondition \in {"typhoon", "storm"} THEN 1 ELSE 0)
            /\ from(3) = (IF Less(call.result.batteryMinutes, Num(15)) THEN 1 ELSE 0)
            /\ \A i, j \in DOMAIN risks : i < j => CheckOf(risks[i]) < CheckOf(risks[j])

\* all three checks object at once: wind, then weather, then battery
C22_Witness ==
    /\ call.fn = "assessSafety"
    /\ Len(call.result.risks) = 3
    /\ call.result.risks[1].text = "Wind speed exceeds max"
    /\ call.result.risks[2].text = "Typhoon conditions - flight not recommended"
    /\ call.result.risks[3].text = "Critical battery"

\* C23: assessSafety is deterministic and stateless and computes power with
\* zero payload: the verdict is the one of the same spec, speed, altitude,
\* energyLevel, windSpeed, weatherCondition and temperature with any other
\* metadata/payload, heading, id, timestamp, wind direction and time scale,
\* whatever was evaluated before.
C23_VerdictFromRelevantInputsOnly ==
    call.fn = "assessSafety" =>
        \A incidental \in Incidentals :
            LET entity == [call.entity EXCEPT !.id = incidental.id,
                                              !.heading = incidental.heading,
                                              !.timestamp = incidental.timestamp,
                                              !.metadata = incidental.metadata]
                env == [call.env EXCEPT !.windDirection = incidental.windDirection,
                                        !.timeScale = incidental.timeScale]
            IN  call.result = assessSafety(call.spec, entity, env)

\* an entity reporting a payload of 2 kg at rest with 1/9 of the battery: the
\* 5 minutes of the unloaded drone
C23_Witness ==
    /\ call.fn = "assessSafety"
    /\ call.spec = DEFAULT_DRONE_SPEC
    /\ call.entity.metadata.payload = Num(2)
    /\ call.entity.id = "drone-2"
    /\ call.env.timeScale = Num(10)
    /\ call.entity.speed = Num(0)
    /\ call.entity.energyLevel = Rat(1, 9)
    /\ call.result.batteryMinutes = Num(5)

\* C24: remainingFlightTime(spec, energyLevel, power) returns infinity
\* whenever power <= 0 and otherwise batteryCapacity * energyLevel / power *
\* 3600 seconds; so assessSafety reports no battery risk when the computed
\* power is not positive.
C24_NoPowerNoDepletion ==
    /\ call.fn = "remainingFlightTime" =>
           IF Leq(call.currentPower, Num(0)) THEN call.result = Infinity
           ELSE /\ call.result # Infinity
                /\ Times(call.result, call.currentPower) =
                       Times(Times(call.spec.batteryCapacity, call.energyLevel), Num(3600))
    /\ call.fn = "assessSafety" =>
           LET power == powerConsumption(call.spec, call.entity.speed, Num(0),
                                         call.entity.position.alt, call.env.temperature)
           IN  Leq(power, Num(0)) =>
                   /\ call.result.batteryMinutes = Infinity
                   /\ RisksWith(call.result.risks, "Critical battery") = 0
                   /\ RisksWith(call.result.risks, "Low battery") = 0

\* a negative power draw on an empty battery
C24_Witness ==
    /\ call.fn = "remainingFlightTime"
    /\ call.currentPower = Num(-50)
    /\ call.energyLevel = Num(0)
    /\ call.result = Infinity

\* C25: airDensity(h, tempC) equals rho0 * exp(-g*h / (R*T)) with T = tempC +
\* 273.15, R = 287.05, g = 9.80665, rho0 = 1.225; hence at altitude 0 it is
\* 1.225 for every temperature, and for fixed temperature it strictly
\* decreases as altitude increases.
C25_BarometricFormula ==
    call.fn = "airDensity" =>
        LET T == Plus(call.tempC, Rat(27315, 100))
            exponent(h) == Over(Times(<<-G[1], G[2]>>, h), Times(Rat(28705, 100), T))
        IN  /\ call.result = Times(RHO_SEA_LEVEL, MathExp(exponent(call.altitudeM)))
            /\ call.altitudeM = Num(0) => call.result = Rat(1225, 1000)
            /\ \A higher \in Altitudes(call.tempC) :
                   Below(call.altitudeM, higher) =>
                       BelowPositive(airDensity(higher, call.tempC), call.result)

\* C26: with a fixed maxBufferSize k >= 1 and keyframes of pairwise distinct
\* timestamps, the buffer after pushing a set of keyframes one at a time is
\* the same for every push order: exactly the k keyframes with the largest
\* timestamps among all keyframes ever pushed, in ascending order.
C26_NewestKWhateverOrder ==
    call.fn = "feed" =>
        LET pushed == call.pushed
            newest == {p \in pushed :
                          Cardinality({q \in pushed : q.timestamp > p.timestamp})
                              < call.maxBufferSize}
            keyframes == buffer.keyframes
        IN  /\ Range(keyframes) = newest
            /\ Len(keyframes) = Cardinality(newest)
            /\ \A i, j \in DOMAIN keyframes :
                   i < j => keyframes[i].timestamp < keyframes[j].timestamp

\* three keyframes pushed into a buffer of size 2: the one at 0 is gone
C26_Witness ==
    /\ call.fn = "feed"
    /\ call.maxBufferSize = 2
    /\ call.pushed = {Keyframe(PoseA, 0), Keyframe(PoseB, 1), Keyframe(PoseA, 2)}
    /\ buffer.keyframes = <<Keyframe(PoseB, 1), Keyframe(PoseA, 2)>>

\* C27: computeInterpolatedState changes only current: the returned buffer has
\* the keyframes, entityId and renderDelay of the input and the input is not
\* modified; entityId and renderDelay are constant over every sequence of
\* pushes and evaluations.
C27_EvaluateChangesOnlyCurrent ==
    [][ /\ last' = "computeInterpolatedState" =>
               /\ buffer' = [buffer EXCEPT !.current = buffer'.current]
               /\ argIntact'
        /\ buffer'.entityId = buffer.entityId
        /\ buffer'.renderDelay = buffer.renderDelay ]_vars

\* a full buffer after an evaluation that interpolated: all three keyframes
\* are still there
C27_Witness ==
    /\ last = "computeInterpolatedState"
    /\ argIntact
    /\ buffer.renderDelay = 1
    /\ buffer.keyframes = <<Keyframe(PoseA, 0), Keyframe(PoseB, 1), Keyframe(PoseA, 2)>>
    /\ buffer.current # Null
    /\ buffer.current.timestamp = 0

\* C28: for every non-empty buffer and every now, each of current's lng, lat,
\* alt, pitch and roll lies between those of two adjacent buffered keyframes
\* (the bracketing pair), hence between the smallest and largest value of the
\* component over the buffer, whatever the render time.
C28_CurrentWithinSamples ==
    \A now \in Nows :
        LET keyframes == buffer.keyframes
            n == Len(keyframes)
            current == computeInterpolatedState(buffer, now).current
        IN  n >= 1 =>
            /\ \E i \in 1..n : \E j \in {i, i + 1} \cap (1..n) :
                   PoseBetween(current, keyframes[i], keyframes[j])
            /\ \E lo \in 1..n, hi \in 1..n :
                   /\ Leq(keyframes[lo].position.alt, current.position.alt)
                   /\ Leq(current.position.alt, keyframes[hi].position.alt)
            /\ \E lo \in 1..n, hi \in 1..n :
                   /\ Leq(keyframes[lo].pitch, current.pitch)
                   /\ Leq(current.pitch, keyframes[hi].pitch)

\* evaluated before the oldest of two different poses: the fraction is
\* negative and current stays at the oldest pose
C28_Witness ==
    /\ last = "computeInterpolatedState"
    /\ buffer.renderDelay = 1
    /\ buffer.keyframes = <<Keyframe(PoseB, 1), Keyframe(PoseA, 2)>>
    /\ buffer.current.timestamp = -1
    /\ buffer.current.position.alt = Num(6)

\* C29: in computeInterpolatedState, whenever the backward scan finds a
\* keyframe with timestamp <= renderTime that is not the newest, the chosen
\* pair satisfies prev.timestamp <= renderTime < next.timestamp: the duration
\* is positive, the fraction lies in [0, 1) and current is the blend at that
\* fraction unclamped.  A fraction outside [0, 1] or a duration <= 0 occurs
\* only when renderTime precedes every sample.
C29_ScanGivesProperBracket ==
    \A now \in Nows :
        LET keyframes == buffer.keyframes
            n == Len(keyframes)
            renderTime == now - buffer.renderDelay
        IN  n >= 2 =>
            LET prevIdx == ScanPrevIdx(keyframes, renderTime, n)
                nextIdx == IF prevIdx + 1 <= n THEN prevIdx + 1 ELSE n
                prev == keyframes[prevIdx]
                next == keyframes[nextIdx]
                duration == next.timestamp - prev.timestamp
                num == renderTime - prev.timestamp
                current == computeInterpolatedState(buffer, now).current
            IN  /\ (prev.timestamp <= renderTime /\ prevIdx < n) =>
                       /\ renderTime < next.timestamp
                       /\ duration > 0
                       /\ 0 <= num /\ num < duration
                       /\ IsBlend(current.position.lng, prev.position.lng,
                                  next.position.lng, num, duration)
                       /\ IsBlend(current.position.lat, prev.position.lat,
                                  next.position.lat, num, duration)
                       /\ IsBlend(current.position.alt, prev.position.alt,
                                  next.position.alt, num, duration)
                       /\ IsBlend(current.pitch, prev.pitch, next.pitch, num, duration)
                       /\ IsBlend(current.roll, prev.roll, next.roll, num, duration)
                /\ (prevIdx # nextIdx /\ (duration <= 0 \/ num < 0 \/ num > duration)) =>
                       \A i \in 1..n : renderTime < keyframes[i].timestamp

\* keyframes at 0 and 2 evaluated at renderTime 1 with no render delay: the
\* scan finds the older one and the fraction is 1/2
C29_Witness ==
    /\ last = "computeInterpolatedState"
    /\ buffer.renderDelay = 0
    /\ buffer.keyframes = <<Keyframe(PoseB, 0), Keyframe(PoseA, 2)>>
    /\ buffer.current.timestamp = 1
    /\ buffer.current.pitch = Num(-2)

\* C30: current changes only through evaluation: a freshly created buffer has
\* current = null and no keyframes, a push leaves current as it was, and after
\* an evaluation current is null if and only if keyframes was empty at that
\* evaluation.
C30_CurrentOnlyByEvaluate ==
    /\ buffer.current = Null /\ buffer.keyframes = <<>>
    /\ [][ /\ last' = "pushKeyframe" => buffer'.current = buffer.current
           /\ last' = "computeInterpolatedState" =>
                  (buffer'.current = Null <=> buffer.keyframes = <<>>) ]_vars

\* a stale current: the keyframe it shows was evicted by the last push
C30_Witness ==
    /\ last = "pushKeyframe"
    /\ buffer.keyframes = <<Keyframe(PoseB, 2)>>
    /\ buffer.current = Keyframe(PoseA, 0)

====
